---- MODULE Spec2Model ----
(***************************************************************************)
(* A model of src/src/openapi_to_repeater.py: the OpenAPI -> Repeater      *)
(* Burp extension (Jython 2.7).                                            *)
(*                                                                         *)
(* Text is modelled as a sequence of tokens.  A token is one character     *)
(* (":", "/", "#", " ", a digit, LF, CR ...) or an atomic word ("Host",    *)
(* "Authorization", "http", ...) whose letters the code never looks into.  *)
(* JSON values are records of one uniform shape (see the section on the    *)
(* document).  A Python dict is a TLA+ function; where the code iterates a *)
(* dict, the iteration order (unspecified for a Jython 2.7 dict) is an     *)
(* explicit argument that the calling action chooses.                      *)
(***************************************************************************)
EXTENDS Integers, Sequences, FiniteSets, TLC

VARIABLES
    generated,          \* self._generated: list of {label, raw_base, headers_base}
    list_model,         \* self._list_model: the display list (labels)
    selected,           \* self._req_list.getSelectedIndex(); -1 when nothing is selected
    spec_doc,           \* self._spec
    txt_host,           \* self.txt_host text
    chk_https,          \* self.chk_https
    txt_bearer,         \* self.txt_bearer text
    ta_extra_headers,   \* self.ta_extra_headers text
    workers,            \* the threads started by load_openapi, each at a position of parse_and_generate
    ui,                 \* the interactive thread: idle, or inside a copy, view or send handler
    effects,            \* what the last handler did: dialogs shown, send calls, clipboard writes
    call,               \* harness for the pure functions: the arguments of the call
    ret                 \* harness for the pure functions: the value returned

uiVars == <<generated, list_model, selected, spec_doc, txt_host, chk_https,
            txt_bearer, ta_extra_headers, workers, ui, effects>>
fnVars == <<call, ret>>
vars == <<generated, list_model, selected, spec_doc, txt_host, chk_https,
          txt_bearer, ta_extra_headers, workers, ui, effects, call, ret>>

----------------------------------------------------------------------------
(* Bounds of the model *)

\* deepest chain of nested calls of simple_sample_from_schema before the
\* interpreter gives up ("maximum recursion depth exceeded")
RecursionLimit == 6
\* most load actions in one run of the interactive model
MaxLoads == 2

----------------------------------------------------------------------------
(* Strings *)

LF == "\n"
CR == "\r"
SP == " "
COLON == ":"
SLASH == "/"
HASH == "#"

\* the characters str.strip() removes
Whitespace == {SP, LF, CR, "\t"}

Digits == {"0", "1", "2", "3", "4", "5", "6", "7", "8", "9"}

DigitVal(c) ==
    CASE c = "0" -> 0 [] c = "1" -> 1 [] c = "2" -> 2 [] c = "3" -> 3 [] c = "4" -> 4
      [] c = "5" -> 5 [] c = "6" -> 6 [] c = "7" -> 7 [] c = "8" -> 8 [] c = "9" -> 9

\* str.lower() of one token: the words of the model that differ only in case
LowerTok(c) ==
    CASE c \in {"Host", "HOST", "hOsT"} -> "host"
      [] c \in {"Authorization", "AUTHORIZATION"} -> "authorization"
      [] OTHER -> c

Lower(s) == [i \in 1..Len(s) |-> LowerTok(s[i])]

RECURSIVE Concat(_)
\* the concatenation of a sequence of strings
Concat(ss) == IF ss = <<>> THEN <<>> ELSE Head(ss) \o Concat(Tail(ss))

RECURSIVE Join(_, _)
\* sep.join(ss)
Join(sep, ss) ==
    IF ss = <<>> THEN <<>>
    ELSE IF Len(ss) = 1 THEN ss[1]
    ELSE ss[1] \o sep \o Join(sep, Tail(ss))

StartsWith(s, p) == Len(s) >= Len(p) /\ SubSeq(s, 1, Len(p)) = p

EndsWith(s, p) == Len(s) >= Len(p) /\ SubSeq(s, Len(s) - Len(p) + 1, Len(s)) = p

Contains(s, c) == \E i \in 1..Len(s) : s[i] = c

\* the index of the first c in s; 0 when there is none
IndexOf(s, c) ==
    IF Contains(s, c) THEN CHOOSE i \in 1..Len(s) : s[i] = c /\ \A j \in 1..(i-1) : s[j] # c
    ELSE 0

\* the index of the last c in s; 0 when there is none
LastIndexOf(s, c) ==
    IF Contains(s, c) THEN CHOOSE i \in 1..Len(s) : s[i] = c /\ \A j \in (i+1)..Len(s) : s[j] # c
    ELSE 0

RECURSIVE LStripSet(_, _)
\* s.lstrip(chars): drops every leading character that is in chars
LStripSet(s, chars) ==
    IF s # <<>> /\ Head(s) \in chars THEN LStripSet(Tail(s), chars) ELSE s

RECURSIVE RStripSet(_, _)
RStripSet(s, chars) ==
    IF s # <<>> /\ s[Len(s)] \in chars THEN RStripSet(SubSeq(s, 1, Len(s) - 1), chars) ELSE s

\* s.strip()
Strip(s) == RStripSet(LStripSet(s, Whitespace), Whitespace)

RECURSIVE Split(_, _)
\* s.split(c): the pieces between the occurrences of c (always at least one piece)
Split(s, c) ==
    LET i == IndexOf(s, c) IN
    IF i = 0 THEN <<s>>
    ELSE <<SubSeq(s, 1, i - 1)>> \o Split(SubSeq(s, i + 1, Len(s)), c)

\* s.split(c, 1): at most one split, at the first c
Split1(s, c) ==
    LET i == IndexOf(s, c) IN
    IF i = 0 THEN <<s>>
    ELSE <<SubSeq(s, 1, i - 1), SubSeq(s, i + 1, Len(s))>>

RECURSIVE ReplaceCRLF(_)
\* s.replace("\r\n", "\n")
ReplaceCRLF(s) ==
    IF s = <<>> THEN <<>>
    ELSE IF Len(s) >= 2 /\ s[1] = CR /\ s[2] = LF THEN <<LF>> \o ReplaceCRLF(SubSeq(s, 3, Len(s)))
    ELSE <<s[1]>> \o ReplaceCRLF(Tail(s))

\* s.replace("\r", "\n")
ReplaceCR(s) == [i \in 1..Len(s) |-> IF s[i] = CR THEN LF ELSE s[i]]

RECURSIVE ReplaceLF(_)
\* s.replace("\n", "\r\n")
ReplaceLF(s) ==
    IF s = <<>> THEN <<>>
    ELSE IF s[1] = LF THEN <<CR, LF>> \o ReplaceLF(Tail(s))
    ELSE <<s[1]>> \o ReplaceLF(Tail(s))

\* the last step of normalize_crlf: a final CRLF is added only when none is there
EnsureFinalCRLF(s) == IF ~EndsWith(s, <<CR, LF>>) THEN s \o <<CR, LF>> ELSE s

normalize_crlf(s) == EnsureFinalCRLF(ReplaceLF(ReplaceCR(ReplaceCRLF(s))))

RECURSIVE DecimalValue(_)
DecimalValue(s) ==
    IF s = <<>> THEN 0 ELSE 10 * DecimalValue(SubSeq(s, 1, Len(s) - 1)) + DigitVal(s[Len(s)])

\* whether int(s) succeeds for a string s: optional surrounding whitespace,
\* an optional sign, then one or more digits
IntParses(s) ==
    LET t == Strip(s)
        u == IF t # <<>> /\ t[1] \in {"+", "-"} THEN Tail(t) ELSE t
    IN u # <<>> /\ \A i \in 1..Len(u) : u[i] \in Digits

\* int(s) where it succeeds
IntOf(s) ==
    LET t == Strip(s)
    IN IF t[1] = "-" THEN 0 - DecimalValue(Tail(t))
       ELSE IF t[1] = "+" THEN DecimalValue(Tail(t))
       ELSE DecimalValue(t)

\* the orders in which a dict with key set S can be iterated
Orders(S) ==
    {o \in [1..Cardinality(S) -> S] : \A i, j \in 1..Cardinality(S) : o[i] = o[j] => i = j}

----------------------------------------------------------------------------
(* parse_host_and_port *)

HttpsDefaultPort == 443
HttpDefaultPort == 80

SchemeHttp == <<"http", COLON, SLASH, SLASH>>
SchemeHttps == <<"https", COLON, SLASH, SLASH>>

\* lines 159-164: strip, then drop one leading scheme
StripScheme(host_field) ==
    LET s == Strip(host_field) IN
    IF StartsWith(s, SchemeHttp) THEN SubSeq(s, Len(SchemeHttp) + 1, Len(s))
    ELSE IF StartsWith(s, SchemeHttps) THEN SubSeq(s, Len(SchemeHttps) + 1, Len(s))
    ELSE s

\* lines 166-167: drop everything from the first "/"
StripPath(s) == IF Contains(s, SLASH) THEN Split(s, SLASH)[1] ELSE s

\* line 172: host_field.split(":", 1)
SplitHostPort(s) == Split1(s, COLON)

\* line 180
DefaultPort(use_https) == IF use_https THEN HttpsDefaultPort ELSE HttpDefaultPort

parse_host_and_port(host_field, use_https) ==
    LET s == StripPath(StripScheme(host_field)) IN
    IF Contains(s, COLON)
    THEN LET parts == SplitHostPort(s) IN
         [host |-> parts[1],
          port |-> IF IntParses(parts[2]) THEN IntOf(parts[2]) ELSE DefaultPort(use_https)]
    ELSE [host |-> s, port |-> DefaultPort(use_https)]

----------------------------------------------------------------------------
(* parse_extra_headers *)

\* str.splitlines() for the line ends CRLF, CR and LF; a final line end
\* opens no further line
SplitLines(s) ==
    LET t == ReplaceCR(ReplaceCRLF(s))
        u == IF EndsWith(t, <<LF>>) THEN SubSeq(t, 1, Len(t) - 1) ELSE t
    IN IF t = <<>> THEN <<>> ELSE Split(u, LF)

\* a dict after d[k] = v
DictSet(d, k, v) == [x \in DOMAIN d \cup {k} |-> IF x = k THEN v ELSE d[x]]

EmptyDict == [x \in {} |-> <<>>]

RECURSIVE parse_extra_lines(_, _)
\* the loop of lines 122-132 over the lines that are left
parse_extra_lines(ls, headers) ==
    IF ls = <<>> THEN headers
    ELSE LET line == Strip(Head(ls))
             parts == Split1(line, COLON)
         IN IF line = <<>> \/ StartsWith(line, <<HASH>>) THEN parse_extra_lines(Tail(ls), headers)
            ELSE IF Len(parts) # 2 THEN parse_extra_lines(Tail(ls), headers)
            ELSE IF Strip(parts[1]) # <<>>
                 THEN parse_extra_lines(Tail(ls), DictSet(headers, Strip(parts[1]), Strip(parts[2])))
                 ELSE parse_extra_lines(Tail(ls), headers)

parse_extra_headers(textarea_value) ==
    IF textarea_value = <<>> THEN EmptyDict
    ELSE parse_extra_lines(SplitLines(textarea_value), EmptyDict)

----------------------------------------------------------------------------
(* Raw request text: the end of the loop body of parse_and_generate, and   *)
(* BurpExtender._build_final_raw                                           *)

\* "%s: %s" % (k, v)
HeaderLine(k, v) == k \o <<COLON, SP>> \o v

\* one line per header of the dict d, in the iteration order `order`
HeaderLines(d, order) == [i \in 1..Len(order) |-> HeaderLine(order[i], d[order[i]])]

\* lines 373-384: the request line, the headers, an empty line and, when a
\* body was sampled (body_lines is <<text>>, else <<>>), the body text;
\* joined by LF
RawBase(request_line, headers_base, order, body_lines) ==
    Join(<<LF>>, <<request_line>> \o HeaderLines(headers_base, order) \o <<(<<>>)>> \o body_lines)

\* lines 427-431: the index in rest of the first line that is blank after
\* strip(); 0 stands for None
BodyIndex(rest) ==
    IF \E i \in 1..Len(rest) : Strip(rest[i]) = <<>>
    THEN CHOOSE i \in 1..Len(rest) :
            Strip(rest[i]) = <<>> /\ \A j \in 1..(i-1) : Strip(rest[j]) # <<>>
    ELSE 0

\* line 432
HeadersPart(rest) == IF BodyIndex(rest) = 0 THEN rest ELSE SubSeq(rest, 1, BodyIndex(rest) - 1)

\* line 433
BodyPart(rest) == IF BodyIndex(rest) = 0 THEN <<>> ELSE SubSeq(rest, BodyIndex(rest) + 1, Len(rest))

RECURSIVE ExistingHeaders(_, _)
\* lines 436-440: the dict of the header lines that hold a colon, split at
\* the first colon, name and value stripped; a later line wins
ExistingHeaders(headers_part, existing) ==
    IF headers_part = <<>> THEN existing
    ELSE LET h == Head(headers_part)
             kv == Split1(h, COLON)
         IN IF Contains(h, COLON)
            THEN ExistingHeaders(Tail(headers_part), DictSet(existing, Strip(kv[1]), Strip(kv[2])))
            ELSE ExistingHeaders(Tail(headers_part), existing)

\* lines 443-444
InjectBearer(existing, bearer_token) ==
    IF bearer_token # <<>>
    THEN DictSet(existing, <<"Authorization">>, <<"Bearer", SP>> \o bearer_token)
    ELSE existing

\* line 448 and line 455: k.lower() == "host"
IsHostName(k) == Lower(k) = <<"host">>

\* lines 447-451 with the override the wrong way round: a header that is
\* already there wins over the extra header
MergeExtrasKeepExisting(existing, extra_headers_dict) ==
    LET kept == {k \in DOMAIN extra_headers_dict : ~IsHostName(k)} IN
    [k \in DOMAIN existing \cup kept |->
        IF k \in DOMAIN existing THEN existing[k] ELSE extra_headers_dict[k]]

\* lines 447-451: every extra header that is not named Host overrides
MergeExtras(existing, extra_headers_dict) ==
    LET kept == {k \in DOMAIN extra_headers_dict : ~IsHostName(k)} IN
    [k \in DOMAIN existing \cup kept |->
        IF k \in kept THEN extra_headers_dict[k] ELSE existing[k]]

\* the dict `existing` when line 454 iterates it
MergedHeaders(base, bearer_token, extra_headers_dict) ==
    MergeExtras(
        InjectBearer(ExistingHeaders(HeadersPart(Tail(Split(base, LF))), EmptyDict), bearer_token),
        extra_headers_dict)

\* the loop of lines 454-457 without the test of line 455
EmittedAlways(k) == TRUE

\* whether line 457 is reached for the key k
Emitted(k) == ~IsHostName(k)

RECURSIVE EmitHeaders(_, _)
\* lines 454-457, for the iteration order `order` of the dict
EmitHeaders(existing, order) ==
    IF order = <<>> THEN <<>>
    ELSE IF Emitted(Head(order))
         THEN <<HeaderLine(Head(order), existing[Head(order)])>> \o EmitHeaders(existing, Tail(order))
         ELSE EmitHeaders(existing, Tail(order))

\* line 424
HostLine(host) == <<"Host", COLON, SP>> \o host

\* line 460: the lines that separate the headers from the body
Separator == <<(<<>>)>>

\* _build_final_raw; `order` is the order in which existing.items() yields
\* the keys of the merged dict
BuildFinalRaw(base, host, bearer_token, extra_headers_dict, order) ==
    LET lines == Split(base, LF)
        request_line == lines[1]
        rest == Tail(lines)
        existing == MergedHeaders(base, bearer_token, extra_headers_dict)
        new_lines == <<request_line, HostLine(host)>> \o EmitHeaders(existing, order)
                        \o Separator \o BodyPart(rest)
    IN normalize_crlf(Join(<<LF>>, new_lines))

----------------------------------------------------------------------------
(* JSON values (what json.load returns), and simple_sample_from_schema     *)
(*                                                                         *)
(* Every value is a record of the same shape: t is the Python type, s the  *)
(* text of a string, n the number (a float holds its value in tenths, a    *)
(* bool 0 or 1), kv the dict as a function from keys to values, l the      *)
(* list.  Raised is not a value: it stands for "the call raised".          *)

JVal(t, s, n, kv, l) == [t |-> t, s |-> s, n |-> n, kv |-> kv, l |-> l]

JNull == JVal("null", <<>>, 0, <<>>, <<>>)
JStr(s) == JVal("str", s, 0, <<>>, <<>>)
JInt(n) == JVal("int", <<>>, n, <<>>, <<>>)
JFloat(tenths) == JVal("float", <<>>, tenths, <<>>, <<>>)
JBool(b) == JVal("bool", <<>>, IF b THEN 1 ELSE 0, <<>>, <<>>)
JList(l) == JVal("list", <<>>, 0, <<>>, l)
JDict(kv) == JVal("dict", <<>>, 0, kv, <<>>)
Raised == JVal("raise", <<>>, 0, <<>>, <<>>)

\* a key or a string literal of the code that is one word
W(word) == <<word>>

\* bool(v)
Truthy(v) ==
    CASE v.t = "null" -> FALSE
      [] v.t \in {"bool", "int", "float"} -> v.n # 0
      [] v.t = "str" -> v.s # <<>>
      [] v.t = "list" -> v.l # <<>>
      [] v.t = "dict" -> DOMAIN v.kv # {}
      [] OTHER -> FALSE

IsDict(v) == v.t = "dict"

\* k in d, for a dict d
HasKey(d, k) == k \in DOMAIN d.kv

\* d.get(k), for a dict d
Get(d, k) == IF HasKey(d, k) THEN d.kv[k] ELSE JNull

\* d.get(k, default), for a dict d
GetOr(d, k, default) == IF HasKey(d, k) THEN d.kv[k] ELSE default

\* ref.lstrip("#/").split("/"): lstrip takes a set of characters, so every
\* leading "#" and "/" goes, not only the prefix "#/"
RefParts(ref) == Split(LStripSet(ref, {HASH, SLASH}), SLASH)

RECURSIVE WalkLenient(_, _)
\* lines 50-56: a missing key, or a node that is no dict, ends the walk
\* with {}
WalkLenient(node, parts) ==
    IF parts = <<>> THEN node
    ELSE IF IsDict(node) /\ HasKey(node, Head(parts))
         THEN WalkLenient(node.kv[Head(parts)], Tail(parts))
         ELSE JDict(<<>>)

\* int(v) inside try/except of lines 90-98: the fallback is 1
IntOrOne(v) ==
    CASE v.t \in {"int", "bool"} -> JInt(v.n)
      [] v.t = "float" -> JInt(IF v.n >= 0 THEN v.n \div 10 ELSE 0 - ((0 - v.n) \div 10))
      [] v.t = "str" -> IF IntParses(v.s) THEN JInt(IntOf(v.s)) ELSE JInt(1)
      [] OTHER -> JInt(1)

\* x or y
PyOr(x, y) == IF Truthy(x) THEN x ELSE y

\* lines 76-86
SampleString(schema) ==
    LET fmt == GetOr(schema, W("format"), JStr(<<>>)) IN
    IF fmt = JStr(W("date-time")) THEN JStr(W("2025-10-02T12:00:00Z"))
    ELSE IF fmt = JStr(W("date")) THEN JStr(W("2025-10-02"))
    ELSE IF fmt = JStr(W("email")) THEN JStr(W("user@example.com"))
    ELSE IF fmt = JStr(W("uuid")) THEN JStr(W("00000000-0000-0000-0000-000000000000"))
    ELSE PyOr(Get(schema, W("title")), PyOr(Get(schema, W("name")), JStr(W("example"))))

\* lines 88-99
SampleNumber(schema) ==
    IF HasKey(schema, W("minimum")) THEN IntOrOne(Get(schema, W("minimum")))
    ELSE IF HasKey(schema, W("maximum")) THEN IntOrOne(Get(schema, W("maximum")))
    ELSE JInt(1)

\* lines 64-74: the effective type; JNull when line 69-72 returns instead
EffectiveType(schema) ==
    LET t == Get(schema, W("type")) IN
    IF Truthy(t) THEN t
    ELSE IF HasKey(schema, W("properties")) THEN JStr(W("object"))
    ELSE IF HasKey(schema, W("enum")) THEN JNull
    ELSE JStr(W("string"))

\* lines 69-72
SampleEnum(schema) ==
    LET enums == Get(schema, W("enum")) IN
    IF enums.t = "list" /\ enums.l # <<>> THEN enums.l[1] ELSE JStr(W("example"))

\* whether a call at this nesting depth still fits the interpreter's stack
FitsStack(depth) == depth <= RecursionLimit

RECURSIVE simple_sample_from_schema(_, _, _)
\* simple_sample_from_schema(schema, spec); depth counts the nested calls.
\* A truthy schema that is no dict raises: a number at line 46 ("in" on a
\* number), a string or a list at line 47, 60, 62 (indexing by a string) or
\* 64 (no get).
simple_sample_from_schema(schema, spec, depth) ==
    IF ~FitsStack(depth) THEN Raised
    ELSE IF ~Truthy(schema) THEN JNull
    ELSE IF ~IsDict(schema) THEN Raised
    ELSE IF HasKey(schema, W("$ref"))
    THEN LET ref == schema.kv[W("$ref")] IN
         IF ref.t # "str" THEN Raised
         ELSE IF StartsWith(ref.s, <<HASH, SLASH>>)
              THEN simple_sample_from_schema(WalkLenient(spec, RefParts(ref.s)), spec, depth + 1)
              ELSE JStr(W("example"))
    ELSE IF HasKey(schema, W("example")) THEN schema.kv[W("example")]
    ELSE IF HasKey(schema, W("default")) THEN schema.kv[W("default")]
    ELSE LET t == EffectiveType(schema) IN
         IF t = JNull THEN SampleEnum(schema)
         ELSE IF t = JStr(W("string")) THEN SampleString(schema)
         ELSE IF t \in {JStr(W("integer")), JStr(W("number"))} THEN SampleNumber(schema)
         ELSE IF t = JStr(W("boolean")) THEN JBool(FALSE)
         ELSE IF t = JStr(W("array"))
              THEN LET item == simple_sample_from_schema(
                                   GetOr(schema, W("items"), JDict(W("type") :> JStr(W("string")))),
                                   spec, depth + 1)
                   IN IF item = Raised THEN Raised ELSE JList(<<item>>)
         ELSE IF t = JStr(W("object"))
              THEN LET props == GetOr(schema, W("properties"), JDict(<<>>)) IN
                   IF ~IsDict(props) THEN Raised
                   ELSE LET obj == [k \in DOMAIN props.kv |->
                                        simple_sample_from_schema(props.kv[k], spec, depth + 1)]
                        IN IF \E k \in DOMAIN obj : obj[k] = Raised THEN Raised ELSE JDict(obj)
         ELSE JStr(W("example"))

\* the call as a caller makes it
Sample(schema, spec) == simple_sample_from_schema(schema, spec, 1)

----------------------------------------------------------------------------
(* Conversions to text used by parse_and_generate                          *)

RECURSIVE NatStr(_)
\* the decimal digits of a natural number
NatStr(n) ==
    IF n < 10 THEN <<CHOOSE c \in Digits : DigitVal(c) = n>>
    ELSE NatStr(n \div 10) \o <<CHOOSE c \in Digits : DigitVal(c) = n % 10>>

\* str(n) for an int
IntStr(n) == IF n < 0 THEN <<"-">> \o NatStr(0 - n) ELSE NatStr(n)

\* str(x) for a float held in tenths
FloatStr(tenths) ==
    LET a == IF tenths < 0 THEN 0 - tenths ELSE tenths IN
    (IF tenths < 0 THEN <<"-">> ELSE <<>>) \o NatStr(a \div 10) \o <<".">> \o NatStr(a % 10)

\* str(v).  The text of a list or a dict is its repr, which the code only
\* copies: it is one opaque word here.
PyStr(v) ==
    CASE v.t = "str" -> v.s
      [] v.t = "int" -> IntStr(v.n)
      [] v.t = "float" -> FloatStr(v.n)
      [] v.t = "bool" -> IF v.n = 1 THEN W("True") ELSE W("False")
      [] v.t = "null" -> W("None")
      [] v.t = "list" -> W("<repr of a list>")
      [] OTHER -> W("<repr of a dict>")

\* java.net.URLEncoder.encode of one character: letters, digits and
\* ".", "-", "*", "_" stay, a space becomes "+", the rest is %-escaped
UrlEncodeTok(c) ==
    CASE c = SP -> "+"
      [] c = SLASH -> "%2F"
      [] c = COLON -> "%3A"
      [] c = HASH -> "%23"
      [] c = "{" -> "%7B"
      [] c = "}" -> "%7D"
      [] c = "=" -> "%3D"
      [] c = "&" -> "%26"
      [] c = "?" -> "%3F"
      [] c = LF -> "%0A"
      [] c = CR -> "%0D"
      [] OTHER -> c

\* _url_encode (lines 401-406); the import of line 403 succeeds under Jython
url_encode(s) == [i \in 1..Len(s) |-> UrlEncodeTok(s[i])]

RECURSIVE Replace(_, _, _)
\* s.replace(old, new), old not empty
Replace(s, old, new) ==
    IF Len(s) < Len(old) THEN s
    ELSE IF SubSeq(s, 1, Len(old)) = old
         THEN new \o Replace(SubSeq(s, Len(old) + 1, Len(s)), old, new)
         ELSE <<s[1]>> \o Replace(Tail(s), old, new)

\* str.upper() of a method name
Upper(method) ==
    CASE method = "get" -> "GET" [] method = "post" -> "POST" [] method = "put" -> "PUT"
      [] method = "patch" -> "PATCH" [] method = "delete" -> "DELETE"
      [] method = "head" -> "HEAD" [] method = "options" -> "OPTIONS"

\* n levels of the two-space indent of json.dumps(indent=2)
Indent(n) == [i \in 1..(2 * n) |-> SP]

RECURSIVE DumpsItems(_, _)
RECURSIVE Dumps(_, _)
\* the texts json.dumps(v, indent=2, ensure_ascii=False) can give for the
\* value v at nesting level lvl: one per iteration order of the dicts in v.
\* Python 2.7 ends an item with ", " before the line break.
Dumps(v, lvl) ==
    CASE v.t = "null" -> {W("null")}
      [] v.t = "bool" -> {IF v.n = 1 THEN W("true") ELSE W("false")}
      [] v.t = "int" -> {IntStr(v.n)}
      [] v.t = "float" -> {FloatStr(v.n)}
      [] v.t = "str" -> {<<"\"">> \o v.s \o <<"\"">>}
      [] v.t = "list" ->
            IF v.l = <<>> THEN {<<"[", "]">>}
            ELSE {<<"[", LF>> \o body \o <<LF>> \o Indent(lvl) \o <<"]">> :
                    body \in DumpsItems([i \in 1..Len(v.l) |-> [key |-> <<>>, val |-> v.l[i]]], lvl + 1)}
      [] OTHER ->
            IF DOMAIN v.kv = {} THEN {<<"{", "}">>}
            ELSE UNION {
                   {<<"{", LF>> \o body \o <<LF>> \o Indent(lvl) \o <<"}">> :
                      body \in DumpsItems(
                                  [i \in 1..Len(order) |->
                                      [key |-> <<"\"">> \o order[i] \o <<"\"", COLON, SP>>,
                                       val |-> v.kv[order[i]]]], lvl + 1)}
                   : order \in Orders(DOMAIN v.kv)}

\* the texts of the items of a list or a dict, each on its own line at
\* nesting level lvl
DumpsItems(items, lvl) ==
    IF Len(items) = 1
    THEN {Indent(lvl) \o items[1].key \o d : d \in Dumps(items[1].val, lvl)}
    ELSE {Indent(lvl) \o items[1].key \o d \o <<",", SP, LF>> \o rest :
            d \in Dumps(items[1].val, lvl), rest \in DumpsItems(Tail(items), lvl)}

----------------------------------------------------------------------------
(* parse_and_generate: the extraction of the operations of a document      *)
(*                                                                         *)
(* An exception anywhere in lines 287-390 leaves the loops and is caught   *)
(* at line 397, so each step below has an outcome "raised".  Where a dict  *)
(* is iterated the step has one outcome per iteration order.               *)

\* line 329
SeedHeaders ==
    (W("User-Agent") :> W("OpenAPI-to-Repeater/1.0")) @@ (W("Accept") :> W("application/json"))

\* line 291
Methods == <<"get", "post", "put", "patch", "delete", "head", "options">>

RECURSIVE WalkStrict(_, _)
\* lines 308-310 and 340-342: node = node.get(part, {}) for every part; a
\* node that is no dict has no get, so the walk raises
WalkStrict(node, parts) ==
    IF parts = <<>> THEN node
    ELSE IF ~IsDict(node) THEN Raised
    ELSE WalkStrict(GetOr(node, Head(parts), JDict(<<>>)), Tail(parts))

\* lines 304-313 and 336-345: a parameter or request body that is a dict
\* with "$ref" is replaced by the node the pointer names, or by {} for a
\* reference that is not local
ResolveRef(p, spec) ==
    IF IsDict(p) /\ HasKey(p, W("$ref"))
    THEN LET ref == p.kv[W("$ref")] IN
         IF ref.t # "str" THEN Raised
         ELSE IF StartsWith(ref.s, <<HASH, SLASH>>) THEN WalkStrict(spec, RefParts(ref.s))
         ELSE JDict(<<>>)
    ELSE p

\* x.get("parameters", []) or [], then params.extend(...): the elements
\* added to params.  A truthy value that is no list either cannot be
\* iterated (a number) or adds strings (the keys of a dict, the characters
\* of a string), on which line 314 raises: the list is <<Raised>> then.
ParamList(owner) ==
    LET v == PyOr(GetOr(owner, W("parameters"), JList(<<>>)), JList(<<>>)) IN
    IF v.t = "list" THEN v.l ELSE <<Raised>>

NoParams == [raised |-> FALSE, path |-> <<>>, query |-> <<>>, header |-> <<>>]

\* whether dict[name] = val works: a list or a dict is not hashable
Hashable(name) == name.t \notin {"list", "dict"}

\* lines 303-327 for one parameter p, given the three dicts so far
RouteParam(acc, p0, spec) ==
    LET p == ResolveRef(p0, spec) IN
    IF acc.raised \/ p0 = Raised \/ ~IsDict(p) THEN [acc EXCEPT !.raised = TRUE]
    ELSE LET name == Get(p, W("name"))
             location == Get(p, W("in"))
             schema == PyOr(Get(p, W("schema")), JDict(<<>>))
             example == Get(p, W("example"))
             val == IF example = JNull THEN Sample(schema, spec) ELSE example
         IN IF val = Raised THEN [acc EXCEPT !.raised = TRUE]
            ELSE IF location \notin {JStr(W("path")), JStr(W("query")), JStr(W("header"))} THEN acc
            ELSE IF ~Hashable(name) THEN [acc EXCEPT !.raised = TRUE]
            ELSE IF location = JStr(W("path")) THEN [acc EXCEPT !.path = DictSet(acc.path, name, val)]
            ELSE IF location = JStr(W("query")) THEN [acc EXCEPT !.query = DictSet(acc.query, name, val)]
            ELSE [acc EXCEPT !.header = DictSet(acc.header, name, val)]

RECURSIVE RouteParams(_, _, _)
\* the loop of line 303
RouteParams(acc, params, spec) ==
    IF params = <<>> THEN acc
    ELSE RouteParams(RouteParam(acc, Head(params), spec), Tail(params), spec)

RECURSIVE OverlayHeaderParams(_, _, _)
\* lines 330-331, for one iteration order of header_params
OverlayHeaderParams(headers_base, header_params, order) ==
    IF order = <<>> THEN headers_base
    ELSE OverlayHeaderParams(
             DictSet(headers_base, PyStr(Head(order)), PyStr(header_params[Head(order)])),
             header_params, Tail(order))

\* lines 329-331: the dicts headers_base can be
HeadersBases(header_params) ==
    {OverlayHeaderParams(SeedHeaders, header_params, order) : order \in Orders(DOMAIN header_params)}

NoBody == [raised |-> FALSE, content_type |-> <<>>, has_type |-> FALSE, body_obj |-> JNull]
BodyRaised == [raised |-> TRUE, content_type |-> <<>>, has_type |-> FALSE, body_obj |-> JNull]

\* lines 350-352 and 355-357: the sample of one media type
MediaBody(ct, media, spec) ==
    IF ~IsDict(media) THEN BodyRaised
    ELSE LET body == Sample(GetOr(media, W("schema"), JDict(<<>>)), spec) IN
         IF body = Raised THEN BodyRaised
         ELSE [raised |-> FALSE, content_type |-> ct, has_type |-> TRUE, body_obj |-> body]

\* "application/json" in content
ContainsJson(content) ==
    CASE content.t = "dict" -> HasKey(content, W("application/json"))
      [] content.t = "list" -> \E i \in 1..Len(content.l) : content.l[i] = JStr(W("application/json"))
      [] content.t = "str" -> Contains(content.s, "application/json")
      [] OTHER -> FALSE

\* lines 333-358: the outcomes of the request body of an operation
BodyOutcomes(op, spec) ==
    IF ~HasKey(op, W("requestBody")) THEN {NoBody}
    ELSE LET rb == ResolveRef(op.kv[W("requestBody")], spec) IN
         IF rb = Raised THEN {BodyRaised}
         ELSE IF ~IsDict(rb) THEN {NoBody}
         ELSE LET content == GetOr(rb, W("content"), JDict(<<>>)) IN
              IF content.t \notin {"dict", "list", "str"} THEN {BodyRaised}
              ELSE IF ContainsJson(content)
                   THEN IF IsDict(content)
                        THEN {MediaBody(W("application/json"), content.kv[W("application/json")], spec)}
                        ELSE {BodyRaised}
              ELSE IF ~IsDict(content) THEN {BodyRaised}
              ELSE IF DOMAIN content.kv = {} THEN {NoBody}
              ELSE {MediaBody(ct, content.kv[ct], spec) : ct \in DOMAIN content.kv}

RECURSIVE SubstitutePath(_, _, _)
\* lines 360-362, for one iteration order of path_params; the names are
\* strings (see PathNamesAreStrings)
SubstitutePath(final_path, path_params, order) ==
    IF order = <<>> THEN final_path
    ELSE SubstitutePath(
             Replace(final_path, <<"{">> \o Head(order).s \o <<"}">>, PyStr(path_params[Head(order)])),
             path_params, Tail(order))

\* "{" + k + "}" of line 362 raises for a name that is no string
PathNamesAreStrings(path_params) == \A k \in DOMAIN path_params : k.t = "str"

\* lines 364-369, for one iteration order of query_params
QueryString(query_params, order) ==
    IF DOMAIN query_params = {} THEN <<>>
    ELSE <<"?">> \o Join(<<"&">>,
                         [i \in 1..Len(order) |->
                             url_encode(PyStr(order[i])) \o <<"=">>
                                 \o url_encode(PyStr(query_params[order[i]]))])

\* line 371
RequestLine(method, final_path, qs) == <<Upper(method), SP>> \o final_path \o qs \o <<SP, "HTTP/1.1">>

\* line 385
Label(method, path_template) == <<Upper(method), SP>> \o path_template

\* lines 378-382: no line for a body that is None; json.dumps does not
\* fail on a value json.load returned, so line 382 is not reached
BodyLines(body_obj) == IF body_obj = JNull THEN {<<>>} ELSE {<<d>> : d \in Dumps(body_obj, 0)}

OpRaised == [raised |-> TRUE, label |-> <<>>, raw_base |-> <<>>, headers_base |-> <<>>]

\* lines 294-390: the outcomes of one operation: the record appended to
\* generated, or raised
OperationOutcomes(spec, path_template, path_item, method) ==
    LET op == path_item.kv[W(method)] IN
    IF ~IsDict(op) THEN {OpRaised}
    ELSE LET routed == RouteParams(NoParams, ParamList(path_item) \o ParamList(op), spec) IN
         IF routed.raised \/ ~PathNamesAreStrings(routed.path) THEN {OpRaised}
         ELSE UNION { UNION { UNION { UNION { UNION {
                {IF body.raised THEN OpRaised
                 ELSE LET headers_base == IF body.has_type
                                          THEN DictSet(hb, W("Content-Type"), body.content_type)
                                          ELSE hb
                      IN [raised |-> FALSE,
                          label |-> Label(method, path_template),
                          raw_base |-> RawBase(RequestLine(method,
                                                           SubstitutePath(path_template, routed.path, po),
                                                           QueryString(routed.query, qo)),
                                               headers_base, ho, bl),
                          headers_base |-> headers_base]
                    : ho \in Orders(DOMAIN (IF body.has_type
                                            THEN DictSet(hb, W("Content-Type"), body.content_type)
                                            ELSE hb))}
                : bl \in BodyLines(body.body_obj)}
                : qo \in Orders(DOMAIN routed.query)}
                : po \in Orders(DOMAIN routed.path)}
                : body \in BodyOutcomes(op, spec)}
                : hb \in HeadersBases(routed.header)}

\* the operations of a path item, in the order of line 291
PathMethods(path_item) == SelectSeq(Methods, LAMBDA m : HasKey(path_item, W(m)))

RECURSIVE PathItemOutcomes(_, _, _, _)
\* lines 290-390 for one path: the lists of records its operations append,
\* or <<OpRaised>> when one of them raises
PathItemOutcomes(spec, path_template, path_item, methods) ==
    IF ~IsDict(path_item) THEN {<<OpRaised>>}
    ELSE IF methods = <<>> THEN {<<>>}
    ELSE {IF first.raised \/ (rest # <<>> /\ rest[1].raised) THEN <<OpRaised>> ELSE <<first>> \o rest :
            first \in OperationOutcomes(spec, path_template, path_item, Head(methods)),
            rest \in PathItemOutcomes(spec, path_template, path_item, Tail(methods))}

RECURSIVE PathsOutcomes(_, _, _)
\* the loop of line 289 for one iteration order of paths
PathsOutcomes(spec, paths, order) ==
    IF order = <<>> THEN {<<>>}
    ELSE {IF (first # <<>> /\ first[1].raised) \/ (rest # <<>> /\ rest[1].raised)
          THEN <<OpRaised>> ELSE first \o rest :
            first \in PathItemOutcomes(spec, Head(order), paths.kv[Head(order)],
                                       IF IsDict(paths.kv[Head(order)])
                                       THEN PathMethods(paths.kv[Head(order)]) ELSE <<>>),
            rest \in PathsOutcomes(spec, paths, Tail(order))}

\* the orders in which paths.items() can yield the path templates of a
\* document (line 289): any order, for the dict of Jython 2.7
PathOrders(paths) == Orders(DOMAIN paths.kv)

\* lines 287-390: the lists `generated` can be when line 392 is reached;
\* <<OpRaised>> stands for an exception caught at line 397
ExtractOutcomes(spec) ==
    IF ~IsDict(spec) THEN {<<OpRaised>>}
    ELSE LET paths == GetOr(spec, W("paths"), JDict(<<>>)) IN
         IF ~IsDict(paths) THEN {<<OpRaised>>}
         ELSE UNION {PathsOutcomes(spec, paths, order) : order \in PathOrders(paths)}

ExtractionFailed(outcome) == outcome # <<>> /\ outcome[1].raised

----------------------------------------------------------------------------
(* The state after registerExtenderCallbacks (lines 209-255)               *)

NoSelection == -1

\* the interactive thread outside every handler
Idle == [pc |-> "idle", kind |-> "none", idx |-> NoSelection]

InitUI ==
    /\ generated = <<>>
    /\ list_model = <<>>
    /\ selected = NoSelection
    /\ spec_doc = JNull
    /\ txt_host = <<>>
    /\ chk_https = TRUE
    /\ txt_bearer = <<>>
    /\ ta_extra_headers = <<>>
    /\ workers = <<>>
    /\ ui = Idle
    /\ effects = <<>>

Pending == [state |-> "pending", value |-> <<>>]
Returned(v) == [state |-> "returned", value |-> v]

----------------------------------------------------------------------------
(* _build_final_raw on the raw_base texts extraction produces              *)

\* d2 laid over d1
Overlay(d1, d2) == [k \in DOMAIN d1 \cup DOMAIN d2 |-> IF k \in DOMAIN d2 THEN d2[k] ELSE d1[k]]

\* header parameters a document can declare
RenderParamHeaders ==
    UNION {[K -> {<<"v", COLON, "1">>}] :
             K \in {{}, {W("Host")}, {W("hOsT")}, {W("Authorization")}, {W("Accept")}, {W("X-A")}}}

RenderExtraHeaders ==
    UNION {[K -> {W("x1")}] :
             K \in {{}, {W("Host")}, {W("host")}, {W("Authorization")}, {W("Accept")}, {W("X-A")},
                    {W("X-B")}, {W("HOST"), W("X-A")}, {W("Authorization"), W("X-B")}}}

RenderBodies ==
    { <<>>,                                                        \* no body sampled
      << <<"{", LF, SP, SP, "\"name\"", COLON, SP, "\"example\"", LF, "}">> >> }

RenderHosts == {W("example.com"), <<"http", COLON, SLASH, SLASH, "h", COLON, "8", "0">>}

RenderBearers == {<<>>, W("tok")}

RenderRequestLine == <<"GET", SP, SLASH, "pets", SP, "HTTP/1.1">>

InitRender ==
    /\ InitUI
    /\ \E ph \in RenderParamHeaders, body \in RenderBodies, host \in RenderHosts,
          bearer \in RenderBearers, extras \in RenderExtraHeaders :
         LET headers_base == Overlay(SeedHeaders, ph) IN
         \E order \in Orders(DOMAIN headers_base) :
            call = [fn |-> "render",
                    headers_base |-> headers_base,
                    body_lines |-> body,
                    base |-> RawBase(RenderRequestLine, headers_base, order, body),
                    host |-> host, bearer |-> bearer, extras |-> extras]
    /\ ret = Pending

\* render(raw_base, host_field, bearer_token, extra_headers)
RenderCall ==
    /\ call.fn = "render"
    /\ ret.state = "pending"
    /\ \E order \in Orders(DOMAIN MergedHeaders(call.base, call.bearer, call.extras)) :
          ret' = Returned(BuildFinalRaw(call.base, call.host, call.bearer, call.extras, order))
    /\ UNCHANGED <<call, uiVars>>

NextRender == RenderCall

SpecRender == InitRender /\ [][NextRender]_vars

----------------------------------------------------------------------------
(* parse_host_and_port on host fields                                      *)

HostSchemes == {<<>>, SchemeHttp, SchemeHttps}

\* a name, a dotted name, and the IPv6 literal [::1]
HostNames == {W("a"), <<"a", ".", "b">>, <<"[", COLON, COLON, "1", "]">>}

HostTails ==
    { <<>>, <<COLON, "8", "0">>, <<COLON, "8", COLON, "0">>, <<COLON>>, <<COLON, "x">>,
      <<COLON, SP, "8">>, <<SLASH, "p">>, <<COLON, "8", "0", SLASH, "p">>,
      <<SLASH, "p", COLON, "9">>, <<COLON, "8", SLASH, "p", COLON, "9">> }

HostPads == {<<>>, <<SP>>}

InitHost ==
    /\ InitUI
    /\ \E sch \in HostSchemes, nm \in HostNames, tl \in HostTails, l \in HostPads, r \in HostPads,
          https \in BOOLEAN :
         call = [fn |-> "parse_host_and_port", host_field |-> l \o sch \o nm \o tl \o r,
                 use_https |-> https]
    /\ ret = Pending

HostCall ==
    /\ call.fn = "parse_host_and_port"
    /\ ret.state = "pending"
    /\ ret' = Returned(parse_host_and_port(call.host_field, call.use_https))
    /\ UNCHANGED <<call, uiVars>>

NextHost == HostCall

SpecHost == InitHost /\ [][NextHost]_vars

----------------------------------------------------------------------------
(* simple_sample_from_schema on schema nodes and documents                 *)

\* {k: v}
D1(k, v) == JDict(k :> v)

\* {k1: v1, k2: v2}
D2(k1, v1, k2, v2) == JDict((k1 :> v1) @@ (k2 :> v2))

\* the pointer "#/k1/.../kn"
Pointer(segs) == <<HASH, SLASH>> \o Join(<<SLASH>>, segs)

\* {"$ref": "#/k1/.../kn"}
RefTo(segs) == D1(W("$ref"), JStr(Pointer(segs)))

\* keys of a document: "a", "b", "#a" and the empty key
SampleKeys == {W("a"), W("b"), <<HASH, "a">>, <<>>}

\* the pointers of one or two segments
SampleSegs == {<<k>> : k \in SampleKeys} \cup {<<k1, k2>> : k1 \in SampleKeys, k2 \in {W("a"), W("b")}}

BooleanSchema == D1(W("type"), JStr(W("boolean")))
IntegerMin5Schema == D2(W("type"), JStr(W("integer")), W("minimum"), JInt(5))

\* well-formed and malformed schema nodes without a local reference
SchemaLeaves ==
    { JNull, JDict(<<>>), BooleanSchema, IntegerMin5Schema,
      D2(W("type"), JStr(W("integer")), W("minimum"), JStr(W("x"))),
      D2(W("type"), JStr(W("integer")), W("maximum"), JStr(<<"1", "2">>)),
      D2(W("type"), JStr(W("number")), W("maximum"), JFloat(27)),
      D2(W("type"), JStr(W("string")), W("format"), JStr(W("date"))),
      D2(W("type"), JStr(W("string")), W("title"), JStr(W("T"))),
      D1(W("name"), JStr(W("N"))),
      D1(W("enum"), JList(<<JStr(W("e1")), JStr(W("e2"))>>)),
      D1(W("enum"), JList(<<>>)),
      D1(W("example"), JInt(7)),
      D1(W("default"), JStr(W("d"))),
      D1(W("type"), JStr(W("weird"))),
      D1(W("type"), JStr(W("array"))),
      D1(W("properties"), JNull),
      D1(W("$ref"), JInt(5)),
      D1(W("$ref"), JStr(<<"other.json", HASH, SLASH, "a">>)),
      JStr(W("abc")), JInt(3), JList(<<BooleanSchema>>) }

\* the nodes a document of the harness holds under a key
DocNodes ==
    { JDict(<<>>), BooleanSchema, IntegerMin5Schema, JStr(W("abc")),
      RefTo(<<W("a")>>), RefTo(<<W("b")>>), RefTo(<<W("a"), W("b")>>),
      D2(W("type"), JStr(W("array")), W("items"), RefTo(<<W("a")>>)),
      D2(W("type"), JStr(W("object")), W("properties"), D1(W("p"), RefTo(<<W("b")>>))),
      D1(W("b"), BooleanSchema),
      D1(W("b"), RefTo(<<W("a"), W("b")>>)),
      D2(W("a"), IntegerMin5Schema, W("b"), D1(W("example"), JStr(W("deep")))) }

SampleDocuments ==
    {JDict(f) : f \in UNION {[K -> DocNodes] :
                               K \in {{W("a")}, {W("a"), W("b")}, {W("a"), <<HASH, "a">>},
                                      {W("b"), <<>>}}}}

SampleSchemas ==
    SchemaLeaves \cup {RefTo(segs) : segs \in SampleSegs}
        \cup {D2(W("type"), JStr(W("array")), W("items"), x) : x \in {BooleanSchema, RefTo(<<W("a")>>)}}
        \cup {D1(W("properties"), D2(W("p"), IntegerMin5Schema, W("q"), x)) :
                 x \in {JNull, RefTo(<<W("b")>>)}}

InitSample ==
    /\ InitUI
    /\ \E schema \in SampleSchemas, doc \in SampleDocuments :
         call = [fn |-> "sample", schema |-> schema, spec |-> doc]
    /\ ret = Pending

\* sample(schema_node, document)
SampleCall ==
    /\ call.fn = "sample"
    /\ ret.state = "pending"
    /\ ret' = Returned(Sample(call.schema, call.spec))
    /\ UNCHANGED <<call, uiVars>>

NextSample == SampleCall

SpecSample == InitSample /\ [][NextSample]_vars

----------------------------------------------------------------------------
(* parse_and_generate on documents                                         *)

\* {k1: v1, k2: v2, k3: v3}
D3(k1, v1, k2, v2, k3, v3) == JDict((k1 :> v1) @@ (k2 :> v2) @@ (k3 :> v3))

PathPets == <<SLASH, "pets">>
PathPet == <<SLASH, "pets", SLASH, "{", "id", "}">>
PathUsers == <<SLASH, "users">>

PlainOp == D1(W("summary"), JStr(W("s")))

IdParam == D3(W("name"), JStr(W("id")), W("in"), JStr(W("path")),
              W("schema"), D2(W("type"), JStr(W("integer")), W("minimum"), JInt(1)))
QueryParam == D3(W("name"), JStr(W("q")), W("in"), JStr(W("query")),
                 W("schema"), D1(W("type"), JStr(W("string"))))
HeaderParam == D3(W("name"), JStr(W("X-A")), W("in"), JStr(W("header")), W("example"), JStr(W("v")))
CookieParam == D2(W("name"), JStr(W("c")), W("in"), JStr(W("cookie")))
NamelessPathParam == D1(W("in"), JStr(W("path")))
IdParamRef == D1(W("$ref"), JStr(<<HASH, SLASH, "components", SLASH, "Id">>))
BrokenParamRef == D1(W("$ref"), JStr(<<HASH, SLASH, "info", SLASH, "x">>))
LoopSchemaParam == D3(W("name"), JStr(W("q")), W("in"), JStr(W("query")),
                      W("schema"), D1(W("$ref"), JStr(<<HASH, SLASH, "components", SLASH, "Loop">>)))

JsonBody(schema) == D1(W("content"), D1(W("application/json"), D1(W("schema"), schema)))
NameObjectSchema ==
    D2(W("type"), JStr(W("object")), W("properties"), D1(W("name"), D1(W("type"), JStr(W("string")))))

BodyOp == D1(W("requestBody"), JsonBody(NameObjectSchema))
XmlBodyOp == D1(W("requestBody"), D1(W("content"), D1(W("text/xml"), D1(W("schema"), BooleanSchema))))
NullBodyOp == D1(W("requestBody"), JsonBody(JNull))
BadContentOp == D1(W("requestBody"), D1(W("content"), JNull))

\* the operations of the harness' path items: well-formed ones and ones
\* on which the extraction raises
HarnessOps ==
    { PlainOp, JDict(<<>>), BodyOp, XmlBodyOp, NullBodyOp,
      D1(W("parameters"), JList(<<IdParam, QueryParam>>)),
      D1(W("parameters"), JList(<<IdParamRef, HeaderParam, CookieParam>>)),
      JNull, JStr(W("abc")), BadContentOp,
      D1(W("parameters"), JList(<<NamelessPathParam>>)),
      D1(W("parameters"), JList(<<BrokenParamRef>>)),
      D1(W("parameters"), JList(<<LoopSchemaParam>>)),
      D1(W("parameters"), JInt(5)) }

\* path items with one operation
OneOpItems == {D1(W("get"), op) : op \in HarnessOps} \cup {D1(W("post"), op) : op \in {PlainOp, BodyOp}}

\* path items with several keys: methods out of the order of line 291, keys
\* that are no method of line 291, shared parameters
ManyKeyItems ==
    { D2(W("post"), PlainOp, W("get"), PlainOp),
      D3(W("options"), PlainOp, W("delete"), PlainOp, W("put"), PlainOp),
      D3(W("GET"), PlainOp, W("trace"), PlainOp, W("head"), PlainOp),
      D2(W("parameters"), JList(<<IdParam>>), W("patch"), PlainOp),
      D1(W("parameters"), JInt(5)),
      JDict(<<>>), JStr(W("abc")) }

HarnessComponents == D2(W("Id"), IdParam, W("Loop"), D1(W("$ref"), JStr(<<HASH, SLASH, "components", SLASH, "Loop">>)))

DocumentWith(paths) == D3(W("info"), JStr(W("api")), W("components"), HarnessComponents, W("paths"), paths)

ExtractDocuments ==
    {DocumentWith(D1(PathPet, item)) : item \in OneOpItems \cup ManyKeyItems}
      \cup {DocumentWith(D2(PathUsers, i1, PathPets, i2)) :
               i1 \in ManyKeyItems, i2 \in {D1(W("get"), PlainOp), D1(W("get"), JNull)}}
      \cup {DocumentWith(D3(PathUsers, i1, PathPets, D1(W("get"), PlainOp), PathPet, D1(W("delete"), PlainOp))) :
               i1 \in {D1(W("get"), PlainOp), D2(W("post"), PlainOp, W("get"), PlainOp)}}
      \cup {DocumentWith(JNull), DocumentWith(JDict(<<>>)), JDict(<<>>), JList(<<>>), JNull}

\* the order of the path templates in the text of a document
DocumentOrders(doc) ==
    IF IsDict(doc) /\ IsDict(GetOr(doc, W("paths"), JDict(<<>>)))
    THEN Orders(DOMAIN GetOr(doc, W("paths"), JDict(<<>>)).kv)
    ELSE {<<>>}

InitExtract ==
    /\ InitUI
    /\ \E doc \in ExtractDocuments : \E order \in DocumentOrders(doc) :
         call = [fn |-> "extract", spec |-> doc, document_order |-> order]
    /\ ret = Pending

\* a dict read by json.load yields its keys in document order where dicts
\* keep insertion order, and in any order under Jython 2.7
ExtractCall ==
    /\ call.fn = "extract"
    /\ ret.state = "pending"
    /\ \E outcome \in ExtractOutcomes(call.spec) : ret' = Returned(outcome)
    /\ UNCHANGED <<call, uiVars>>

NextExtract == ExtractCall

SpecExtract == InitExtract /\ [][NextExtract]_vars

----------------------------------------------------------------------------
(* The extension at work: load actions, their worker threads, and the      *)
(* copy, view and send handlers of the interactive thread                  *)

\* effects holds what the latest action of the operator has done so far that
\* the operator or Burp can observe: a message dialog, a call of sendToRepeater (5 or 4 arguments), a clipboard write,
\* the text area with the request (preview or manual copy), an exception
\* that left the handler
Ev(what, ok, text, host, port, https) ==
    [what |-> what, ok |-> ok, text |-> text, host |-> host, port |-> port, https |-> https]

Dialog(message) == Ev("dialog", TRUE, W(message), <<>>, 0, FALSE)
ClipboardWrite(ok, text) == Ev("clipboard", ok, text, <<>>, 0, FALSE)
TextView(title, text) == Ev(title, TRUE, text, <<>>, 0, FALSE)
Uncaught(exception) == Ev("uncaught", FALSE, W(exception), <<>>, 0, FALSE)

\* lines 487-496
CopyEffects(final_raw, clip_ok) ==
    IF clip_ok
    THEN <<ClipboardWrite(TRUE, final_raw), Dialog("Raw request copied to clipboard.")>>
    ELSE <<ClipboardWrite(FALSE, final_raw), TextView("Raw Request (copy manually)", final_raw)>>

\* lines 513-518
ViewEffects(final_raw) == <<TextView("Raw Request (preview)", final_raw)>>

\* lines 546-560: the calls of sendToRepeater; has_send is the hasattr of
\* line 546, ok5 and ok4 whether the call with 5 and with 4 arguments
\* returns (it raises otherwise)
SendAttempts(final_raw, hp, use_https, has_send, ok5, ok4) ==
    IF ~has_send THEN <<>>
    ELSE IF ok5
         THEN <<Ev("sendToRepeater5", TRUE, final_raw, hp.host, hp.port, use_https),
                Dialog("Sent to Repeater.")>>
         ELSE <<Ev("sendToRepeater5", FALSE, final_raw, hp.host, hp.port, use_https)>> \o
              (IF ok4
               THEN <<Ev("sendToRepeater4", TRUE, final_raw, hp.host, hp.port, use_https),
                      Dialog("Sent to Repeater (fallback).")>>
               ELSE <<Ev("sendToRepeater4", FALSE, final_raw, hp.host, hp.port, use_https)>>)

\* the value of sent at line 562
Sent(has_send, ok5, ok4) == has_send /\ (ok5 \/ ok4)

\* lines 562-572 with no manual view when the clipboard fails
SendFallbackNoView(sent, final_raw, clip_ok) ==
    IF sent THEN <<>>
    ELSE IF clip_ok
         THEN <<ClipboardWrite(TRUE, final_raw),
                Dialog("Could not auto-send. Request copied to clipboard.")>>
         ELSE <<ClipboardWrite(FALSE, final_raw)>>

\* lines 562-572
SendFallback(sent, final_raw, clip_ok) ==
    IF sent THEN <<>>
    ELSE IF clip_ok
         THEN <<ClipboardWrite(TRUE, final_raw),
                Dialog("Could not auto-send. Request copied to clipboard.")>>
         ELSE <<ClipboardWrite(FALSE, final_raw),
                TextView("Could not auto-send. Copy manually.", final_raw)>>

\* lines 544-572
SendEffects(final_raw, hp, use_https, has_send, ok5, ok4, clip_ok) ==
    SendAttempts(final_raw, hp, use_https, has_send, ok5, ok4)
        \o SendFallback(Sent(has_send, ok5, ok4), final_raw, clip_ok)

\* lines 476 and 505 and 527 with the test left out: an empty host field
\* is rendered like any other
HostMissingNever(host_field) == FALSE

\* lines 476, 505, 527: `not host_field`, for the stripped text of the field
HostMissing(host_field) == host_field = <<>>

\* the handlers after get_selected_item returned `it`: lines 475-496,
\* 504-518 and 525-572.  The environment decides has_send, ok5, ok4 and
\* clip_ok, and `order` is the iteration order of the merged headers.
HandlerEffects(kind, it, has_send, ok5, ok4, clip_ok, order) ==
    LET host_field == Strip(txt_host)
        hp == parse_host_and_port(host_field, chk_https)
        extras == parse_extra_headers(ta_extra_headers)
        bearer == Strip(txt_bearer)
        final_raw == BuildFinalRaw(it.raw_base, host_field, bearer, extras, order)
    IN IF HostMissing(host_field) THEN <<Dialog("Target host is empty.")>>
       ELSE IF kind = "copy" THEN CopyEffects(final_raw, clip_ok)
       ELSE IF kind = "view" THEN ViewEffects(final_raw)
       ELSE SendEffects(final_raw, hp, chk_https, has_send, ok5, ok4, clip_ok)

\* the orders in which line 454 can iterate the merged headers of a handler
HandlerOrders(it) ==
    Orders(DOMAIN MergedHeaders(it.raw_base, Strip(txt_bearer), parse_extra_headers(ta_extra_headers)))

\* the texts the operator types into the target host field
HostTexts == {<<>>, <<SP>>, <<SP, "example.com">>}

\* the documents the operator loads
UIDocuments ==
    { DocumentWith(D1(PathPets, D2(W("post"), PlainOp, W("get"), PlainOp))),
      DocumentWith(D1(PathUsers, D1(W("get"), PlainOp))),
      DocumentWith(D2(PathUsers, D1(W("get"), PlainOp), PathPets, D1(W("get"), JNull))) }

EditHost ==
    /\ ui.pc = "idle"
    /\ \E h \in HostTexts : h # txt_host /\ txt_host' = h
    /\ effects' = <<>>
    /\ UNCHANGED <<generated, list_model, selected, spec_doc, chk_https, txt_bearer,
                   ta_extra_headers, workers, ui, fnVars>>

ToggleHttps ==
    /\ ui.pc = "idle"
    /\ chk_https' = ~chk_https
    /\ effects' = <<>>
    /\ UNCHANGED <<generated, list_model, selected, spec_doc, txt_host, txt_bearer,
                   ta_extra_headers, workers, ui, fnVars>>

\* the operator clicks an entry of the list
Select ==
    /\ ui.pc = "idle"
    /\ \E i \in 0..(Len(list_model) - 1) : i # selected /\ selected' = i
    /\ effects' = <<>>
    /\ UNCHANGED <<generated, list_model, spec_doc, txt_host, chk_https, txt_bearer,
                   ta_extra_headers, workers, ui, fnVars>>

\* a worker thread at the start of parse_and_generate(spec)
NewWorker(spec) == [pc |-> "extract", spec |-> spec, gen |-> <<>>, i |-> 0]

\* a worker thread that has returned: "done" after line 396, "failed" after
\* the except clause of lines 397-399; its locals are gone
Finished(how) == [pc |-> how, spec |-> JNull, gen |-> <<>>, i |-> 0]

\* at most MaxLoads documents are loaded in a run
CanLoad == Len(workers) < MaxLoads

\* load_openapi when the dialog is cancelled, the file cannot be read or
\* json.load raises (lines 268-276, 280-282): nothing is stored
LoadFails ==
    /\ ui.pc = "idle"
    /\ CanLoad
    /\ \E how \in {"cancelled", "unreadable file", "invalid JSON"} :
          effects' = IF how = "cancelled" THEN <<>> ELSE <<Dialog("Failed to load JSON: %s")>>
    /\ UNCHANGED <<generated, list_model, selected, spec_doc, txt_host, chk_https, txt_bearer,
                   ta_extra_headers, workers, ui, fnVars>>

\* load_openapi for a file that holds a JSON document (lines 277-279)
LoadStarts ==
    /\ ui.pc = "idle"
    /\ CanLoad
    /\ \E spec \in UIDocuments :
          /\ spec_doc' = spec
          /\ workers' = Append(workers, NewWorker(spec))
    /\ effects' = <<>>
    /\ UNCHANGED <<generated, list_model, selected, txt_host, chk_https, txt_bearer,
                   ta_extra_headers, ui, fnVars>>

\* a worker whose extraction raised stores an empty list
AdoptedEmpty(old_generated, partial) == <<>>

\* what self._generated holds after a worker's extraction raised: line 397
\* is reached before line 393, which is left out
AdoptedOnFailure(old_generated, partial) == old_generated

\* lines 287-392 of a worker: the extraction, into the local list generated
WorkerExtract(w) ==
    /\ workers[w].pc = "extract"
    /\ \E outcome \in ExtractOutcomes(workers[w].spec) :
          IF ExtractionFailed(outcome)
          THEN /\ workers' = [workers EXCEPT ![w] = Finished("failed")]
               /\ generated' = AdoptedOnFailure(generated, outcome)
          ELSE /\ workers' = [workers EXCEPT ![w] = [pc |-> "assign", spec |-> JNull,
                                                     gen |-> [j \in 1..Len(outcome) |->
                                                                [label |-> outcome[j].label,
                                                                 raw_base |-> outcome[j].raw_base,
                                                                 headers_base |-> outcome[j].headers_base]],
                                                     i |-> 0]]
               /\ UNCHANGED generated
    /\ UNCHANGED <<list_model, selected, spec_doc, txt_host, chk_https, txt_bearer,
                   ta_extra_headers, ui, effects, fnVars>>

\* line 393
WorkerAssign(w) ==
    /\ workers[w].pc = "assign"
    /\ generated' = workers[w].gen
    /\ workers' = [workers EXCEPT ![w].pc = "clear"]
    /\ UNCHANGED <<list_model, selected, spec_doc, txt_host, chk_https, txt_bearer,
                   ta_extra_headers, ui, effects, fnVars>>

\* line 394; a JList drops its selection when its model is cleared
WorkerClear(w) ==
    /\ workers[w].pc = "clear"
    /\ list_model' = <<>>
    /\ selected' = NoSelection
    /\ workers' = [workers EXCEPT ![w] = IF workers[w].gen = <<>> THEN Finished("done")
                                           ELSE [workers[w] EXCEPT !.pc = "add", !.i = 1]]
    /\ UNCHANGED <<generated, spec_doc, txt_host, chk_https, txt_bearer,
                   ta_extra_headers, ui, effects, fnVars>>

\* lines 395-396, one element
WorkerAdd(w) ==
    /\ workers[w].pc = "add"
    /\ list_model' = Append(list_model, workers[w].gen[workers[w].i].label)
    /\ workers' = [workers EXCEPT ![w] = IF workers[w].i = Len(workers[w].gen) THEN Finished("done")
                                           ELSE [workers[w] EXCEPT !.i = workers[w].i + 1]]
    /\ UNCHANGED <<generated, selected, spec_doc, txt_host, chk_https, txt_bearer,
                   ta_extra_headers, ui, effects, fnVars>>

WorkerStep == \E w \in 1..Len(workers) :
    WorkerExtract(w) \/ WorkerAssign(w) \/ WorkerClear(w) \/ WorkerAdd(w)

\* the operator presses Copy Raw, View Raw or Send to Repeater: the handler
\* starts with get_selected_index (lines 408-412)
Click ==
    /\ ui.pc = "idle"
    /\ \E kind \in {"copy", "view", "send"} : ui' = [pc |-> "check", kind |-> kind, idx |-> selected]
    /\ effects' = <<>>
    /\ UNCHANGED <<generated, list_model, selected, spec_doc, txt_host, chk_https, txt_bearer,
                   ta_extra_headers, workers, fnVars>>

\* line 413, and lines 471-473, 500-502, 522-524 when it holds
CheckIndex ==
    /\ ui.pc = "check"
    /\ IF ui.idx < 0 \/ ui.idx >= Len(generated)
       THEN /\ effects' = <<Dialog("Select a request first")>>
            /\ ui' = [ui EXCEPT !.pc = "idle"]
       ELSE /\ ui' = [ui EXCEPT !.pc = "fetch"]
            /\ UNCHANGED effects
    /\ UNCHANGED <<generated, list_model, selected, spec_doc, txt_host, chk_https, txt_bearer,
                   ta_extra_headers, workers, fnVars>>

\* line 415 and the rest of the handler.  self._generated is read again at
\* line 415: a worker may have stored a shorter list since line 413, and
\* the IndexError leaves the handler (get_selected_item is called outside
\* the try of line 525).
Handle ==
    /\ ui.pc = "fetch"
    /\ IF ui.idx >= Len(generated)
       THEN effects' = <<Uncaught("IndexError")>>
       ELSE LET it == generated[ui.idx + 1] IN
            IF it.raw_base = <<>> /\ it.label = <<>> /\ DOMAIN it.headers_base = {}
            THEN effects' = <<Dialog("Select a request first")>>
            ELSE \E has_send, ok5, ok4, clip_ok \in BOOLEAN : \E order \in HandlerOrders(it) :
                    effects' = HandlerEffects(ui.kind, it, has_send, ok5, ok4, clip_ok, order)
    /\ ui' = [ui EXCEPT !.pc = "idle"]
    /\ UNCHANGED <<generated, list_model, selected, spec_doc, txt_host, chk_https, txt_bearer,
                   ta_extra_headers, workers, fnVars>>

InitSpec ==
    /\ InitUI
    /\ call = [fn |-> "none"]
    /\ ret = Pending

Next ==
    \/ EditHost \/ ToggleHttps \/ Select
    \/ LoadFails \/ LoadStarts \/ WorkerStep
    \/ Click \/ CheckIndex \/ Handle

Spec == InitSpec /\ [][Next]_vars

----------------------------------------------------------------------------
(* Claims about _build_final_raw (specification SpecRender)                *)

CRLF == <<CR, LF>>

\* whether p occurs in s
HasSubstring(s, p) == \E i \in 1..(Len(s) - Len(p) + 1) : SubSeq(s, i, i + Len(p) - 1) = p

\* the lines of a CRLF-separated text
OutLines(out) == Split(ReplaceCRLF(out), LF)

\* the header lines of a rendered text: those after the request line and
\* before the first empty line
OutHeaderLines(out) ==
    LET ls == Tail(OutLines(out)) IN
    IF \E i \in 1..Len(ls) : ls[i] = <<>>
    THEN SubSeq(ls, 1, (CHOOSE i \in 1..Len(ls) : ls[i] = <<>> /\ \A j \in 1..(i-1) : ls[j] # <<>>) - 1)
    ELSE ls

\* the name of a header line: the text before its first colon
LineName(line) == SubSeq(line, 1, IndexOf(line, COLON) - 1)

\* C1: the text render returns ends with CRLF and holds CRLF CRLF (the blank
\* line that ends the header block); for a request without a body it ends
\* with CRLF CRLF.
C1_CompleteRawHttp ==
    (call.fn = "render" /\ ret.state = "returned") =>
        /\ EndsWith(ret.value, CRLF)
        /\ HasSubstring(ret.value, CRLF \o CRLF)
        /\ (call.body_lines = <<>> => EndsWith(ret.value, CRLF \o CRLF))

\* the indices of the header lines of the rendered text that are named Host
\* in any letter case
HostLineIndices(out) ==
    {i \in 1..Len(OutHeaderLines(out)) :
        LET line == OutHeaderLines(out)[i] IN
        Contains(line, COLON) /\ Lower(Strip(LineName(line))) = W("host")}

RenderNames(c) == DOMAIN c.headers_base \cup DOMAIN c.extras \cup {W("Authorization")}

\* the header lines of the rendered text whose name is exactly N
LinesNamed(out, N) ==
    {i \in 1..Len(OutHeaderLines(out)) :
        LET line == OutHeaderLines(out)[i] IN Contains(line, COLON) /\ LineName(line) = N}

C3_WitnessBearer ==
    /\ call.fn = "render" /\ ret.state = "returned"
    /\ W("Authorization") \in DOMAIN call.headers_base
    /\ W("Authorization") \notin DOMAIN call.extras
    /\ call.bearer # <<>>

----------------------------------------------------------------------------
(* Claims about parse_host_and_port (specification SpecHost)               *)

\* the host field after strip(), without one leading scheme and cut at its
\* first "/"
HostAuthority(host_field) ==
    LET t == Strip(host_field)
        u == IF StartsWith(t, <<"http", COLON, SLASH, SLASH>>) THEN SubSeq(t, 5, Len(t))
             ELSE IF StartsWith(t, <<"https", COLON, SLASH, SLASH>>) THEN SubSeq(t, 5, Len(t))
             ELSE t
    IN IF Contains(u, SLASH) THEN SubSeq(u, 1, IndexOf(u, SLASH) - 1) ELSE u

\* C8 as stated: the remainder is split at its LAST colon to obtain the
\* explicit port; without an explicit port the port is 443 when use_https
\* and 80 otherwise.
C8_SplitOnLastColon ==
    (call.fn = "parse_host_and_port" /\ ret.state = "returned") =>
        LET a == HostAuthority(call.host_field)
            i == LastIndexOf(a, COLON)
            dflt == IF call.use_https THEN 443 ELSE 80
        IN IF i = 0
           THEN ret.value = [host |-> a, port |-> dflt]
           ELSE /\ ret.value.host = SubSeq(a, 1, i - 1)
                /\ ret.value.port = IF IntParses(SubSeq(a, i + 1, Len(a)))
                                    THEN IntOf(SubSeq(a, i + 1, Len(a))) ELSE dflt

\* C8, what line 172 computes instead: the remainder is split at its FIRST
\* colon: the host is the text before it and the port is the text after it
\* when that text is an integer; with no colon, or with text after the first
\* colon that is no integer, the port is 443 when use_https and 80
\* otherwise, whatever the stripped scheme was.
C8_SplitOnFirstColon ==
    (call.fn = "parse_host_and_port" /\ ret.state = "returned") =>
        LET a == HostAuthority(call.host_field)
            h == ret.value.host
            dflt == IF call.use_https THEN 443 ELSE 80
        IN /\ ~Contains(h, COLON)
           /\ StartsWith(a, h)
           /\ Len(h) = Len(a) \/ a[Len(h) + 1] = COLON
           /\ LET after == SubSeq(a, Len(h) + 2, Len(a)) IN
              ret.value.port = IF Len(h) < Len(a) /\ IntParses(after) THEN IntOf(after) ELSE dflt

\* the IPv6 literal with a port, [::1]:80, parsed: the host is cut at the
\* first colon of the literal and the port given is lost
C8_Witness ==
    /\ call.fn = "parse_host_and_port" /\ ret.state = "returned"
    /\ call.host_field = <<"[", COLON, COLON, "1", "]", COLON, "8", "0">>
    /\ call.use_https
    /\ ret.value = [host |-> W("["), port |-> 443]

----------------------------------------------------------------------------
(* Claims about simple_sample_from_schema (specification SpecSample)       *)

\* C4: sample returns a value (possibly null) and does not raise, for every
\* schema node and every document: malformed nodes, pointers with missing
\* segments, pointers that refer to themselves or form a cycle.
C4_NeverRaises ==
    (call.fn = "sample" /\ ret.state = "returned") => ret.value # Raised

RECURSIVE SegmentsExist(_, _)
\* whether document[k1]...[kn] exists
SegmentsExist(node, segs) ==
    \/ segs = <<>>
    \/ /\ node.t = "dict"
       /\ Head(segs) \in DOMAIN node.kv
       /\ SegmentsExist(node.kv[Head(segs)], Tail(segs))

RECURSIVE NodeAt(_, _)
\* document[k1]...[kn]
NodeAt(node, segs) == IF segs = <<>> THEN node ELSE NodeAt(node.kv[Head(segs)], Tail(segs))

\* the segments k1, ..., kn of the pointer "#/k1/.../kn"
SegmentsOf(pointer) == Split(SubSeq(pointer, 3, Len(pointer)), SLASH)

\* C10: sampling {"$ref": "#/k1/.../kn"} returns what sampling the node
\* document[k1]...[kn] returns when every segment exists, and null when a
\* segment is missing; a $ref that does not start with "#/" gives "example".
C10_RefSamplesTarget ==
    (/\ call.fn = "sample" /\ ret.state = "returned"
     /\ call.schema.t = "dict" /\ DOMAIN call.schema.kv = {W("$ref")}
     /\ call.schema.kv[W("$ref")].t = "str") =>
        LET pointer == call.schema.kv[W("$ref")].s IN
        IF StartsWith(pointer, <<HASH, SLASH>>)
        THEN IF SegmentsExist(call.spec, SegmentsOf(pointer))
             THEN ret.value = Sample(NodeAt(call.spec, SegmentsOf(pointer)), call.spec)
             ELSE ret.value = JNull
        ELSE ret.value = JStr(W("example"))

----------------------------------------------------------------------------
(* Claims about the extraction (specification SpecExtract)                 *)

\* the records an extraction emits: none when it raised
EmittedRecords(outcome) == IF ExtractionFailed(outcome) THEN <<>> ELSE outcome

RECURSIVE ExpectedLabels(_, _)
\* "<METHOD> <path_template>" for every path template in document order
\* and, within a path, every method of get, post, put, patch, delete, head,
\* options (in that order) that is a key of the path item
ExpectedLabels(paths, document_order) ==
    IF document_order = <<>> THEN <<>>
    ELSE LET path_template == Head(document_order)
             item == paths.kv[path_template]
             present == IF item.t = "dict"
                        THEN SelectSeq(<<"get", "post", "put", "patch", "delete", "head", "options">>,
                                       LAMBDA m : <<m>> \in DOMAIN item.kv)
                        ELSE <<>>
         IN [i \in 1..Len(present) |-> <<Upper(present[i]), SP>> \o path_template]
                \o ExpectedLabels(paths, Tail(document_order))

\* C7: extraction emits exactly one record for each (path template, method)
\* pair whose method is a lower-case key get, post, put, patch, delete, head,
\* options of the path item, and no other; the records are in document
\* order of the paths and, within a path, in the fixed method order; each
\* label is "<METHOD> <path_template>".
C7_OneRecordPerOperation ==
    (call.fn = "extract" /\ ret.state = "returned") =>
        LET paths == IF IsDict(call.spec) /\ IsDict(GetOr(call.spec, W("paths"), JDict(<<>>)))
                     THEN GetOr(call.spec, W("paths"), JDict(<<>>))
                     ELSE JDict(<<>>)
            records == EmittedRecords(ret.value)
        IN [i \in 1..Len(records) |-> records[i].label] = ExpectedLabels(paths, call.document_order)

\* C7 for the documents on which it fails for the iteration order alone:
\* no step of the extraction raises, and the records are not in document
\* order
C7_OrderOnly ==
    (call.fn = "extract" /\ ret.state = "returned" /\ ~ExtractionFailed(ret.value)) =>
        LET paths == GetOr(call.spec, W("paths"), JDict(<<>>)) IN
        [i \in 1..Len(ret.value) |-> ret.value[i].label] = ExpectedLabels(paths, call.document_order)

----------------------------------------------------------------------------
(* Claims about the handlers and the load action (specification Spec)      *)

\* the step in which a handler of the given kinds, having fetched a stored
\* request at line 415, runs to its end
HandlerCompletes(kinds) ==
    /\ ui.pc = "fetch"
    /\ ui.kind \in kinds
    /\ ui.idx < Len(generated)
    /\ ui'.pc = "idle"

\* the final request texts the handler can build from the request it fetched
FinalRaws ==
    LET it == generated[ui.idx + 1]
    IN {BuildFinalRaw(it.raw_base, Strip(txt_host), Strip(txt_bearer),
                      parse_extra_headers(ta_extra_headers), order) : order \in HandlerOrders(it)}

ManualView == "Could not auto-send. Copy manually."
SendCalls == {"sendToRepeater5", "sendToRepeater4"}

\* the event hands the request text to the operator
Delivers(e) == (e.what \in SendCalls \cup {"clipboard"} /\ e.ok) \/ e.what = ManualView

\* the order of the channels in the events es of one send action
ChannelsInOrder(es) ==
    /\ \A i \in 1..Len(es) : es[i].what = "sendToRepeater5" => i = 1
    /\ \A i \in 1..Len(es) : es[i].what = "sendToRepeater4" =>
          \E j \in 1..(i - 1) : es[j].what = "sendToRepeater5" /\ ~es[j].ok
    /\ \A i \in 1..Len(es) : es[i].what = "clipboard" =>
          /\ \A j \in 1..Len(es) : es[j].what \in SendCalls => j < i /\ ~es[j].ok
          /\ (\E j \in 1..Len(es) : es[j].what = "sendToRepeater5") =>
                (\E j \in 1..Len(es) : es[j].what = "sendToRepeater4")
    /\ \A i \in 1..Len(es) : es[i].what = ManualView =>
          \E j \in 1..(i - 1) : es[j].what = "clipboard" /\ ~es[j].ok

\* C5: a send action on a selected request with a non-empty host tries the
\* 5-argument sendToRepeater first, the 4-argument form only after the
\* 5-argument form failed, the clipboard only after both failed or when there
\* is no send call, and the manual-copy view only after the clipboard failed;
\* whatever fails, exactly one of them hands over the final request text.
C5_SendDegradesInOrder ==
    [][ (HandlerCompletes({"send"}) /\ Strip(txt_host) # <<>>) =>
           /\ ChannelsInOrder(effects')
           /\ Cardinality({i \in 1..Len(effects') : Delivers(effects'[i])}) = 1
           /\ \A i \in 1..Len(effects') :
                 effects'[i].what \in SendCalls \cup {"clipboard", ManualView} =>
                    effects'[i].text \in FinalRaws ]_vars

\* a send action in which both send forms and the clipboard failed has
\* ended with the manual-copy view
C5_Witness ==
    /\ ui.pc = "idle"
    /\ Len(effects) = 4
    /\ effects[1].what = "sendToRepeater5" /\ ~effects[1].ok
    /\ effects[2].what = "sendToRepeater4" /\ ~effects[2].ok
    /\ effects[3].what = "clipboard" /\ ~effects[3].ok
    /\ effects[4].what = ManualView
    /\ HasSubstring(effects[4].text, <<"Host", COLON, SP, "example.com">>)

\* events that build, send, copy or display a request text
CarriesRequest(e) == e.what # "dialog"

\* C6: a copy, view or send action on a selected request while the target
\* host field is empty or whitespace ends with the message "Target host is
\* empty." and nothing else: nothing is sent, copied or displayed, and the
\* stored generated requests are unchanged.
C6_EmptyHostRefused ==
    [][ (HandlerCompletes({"copy", "view", "send"}) /\ Strip(txt_host) = <<>>) =>
           /\ effects' = <<Dialog("Target host is empty.")>>
           /\ \A i \in 1..Len(effects') : ~CarriesRequest(effects'[i])
           /\ generated' = generated ]_vars

\* a send action on a selected request was refused while the host field
\* held only whitespace
C6_Witness ==
    /\ ui = [pc |-> "idle", kind |-> "send", idx |-> selected]
    /\ selected >= 0 /\ selected < Len(generated)
    /\ txt_host = <<SP>>
    /\ effects = <<Dialog("Target host is empty.")>>

\* the step in which a load action fails: load_openapi reports "Failed to
\* load JSON", or a worker leaves parse_and_generate through its except clause
LoadActionFails ==
    \/ effects' = <<Dialog("Failed to load JSON: %s")>> /\ effects' # effects
    \/ \E w \in 1..Len(workers) : workers[w].pc = "extract" /\ workers'[w].pc = "failed"

\* C9: a load action that fails (unreadable file, invalid JSON, an error
\* while an operation is extracted) leaves the stored generated requests,
\* the display list and the selection as they were, and the worker of a
\* failed extraction does nothing afterwards.
C9_FailedLoadAdoptsNothing ==
    [][ /\ LoadActionFails => UNCHANGED <<generated, list_model, selected>>
        /\ \A w \in 1..Len(workers) : workers[w].pc = "failed" => workers'[w] = workers[w] ]_vars

\* an extraction failed while the requests of an earlier document were
\* stored and displayed
C9_Witness ==
    /\ \E w \in 1..Len(workers) : workers[w].pc = "failed"
    /\ \A w \in 1..Len(workers) : workers[w].pc \in {"failed", "done"}
    /\ Len(generated) = 2
    /\ Len(list_model) = 2

----------------------------------------------------------------------------
(* Claims about the worker threads and the interactive thread              *)
(* (specification Spec)                                                    *)

\* every worker thread started by a load action has returned
WorkersFinished == \A w \in 1..Len(workers) : workers[w].pc \in {"done", "failed"}

\* the display list and the stored requests are parallel
Parallel ==
    /\ Len(list_model) = Len(generated)
    /\ \A i \in 1..Len(list_model) : list_model[i] = generated[i].label

\* C11: once every worker thread started by load actions has finished, the
\* display list and the stored generated requests are parallel: same length,
\* and entry i of the list is the label of request i, for any number of
\* load actions and any interleaving of the workers' steps.
C11_ParallelWhenFinished == WorkersFinished => Parallel

\* C11 for a single load action: with one worker the lists are parallel
\* once it has finished
C11_OneWorkerParallel == (Len(workers) <= 1 /\ WorkersFinished) => Parallel

\* the request lists a worker can store: the complete result of the
\* extraction of a loaded document
CompleteResults ==
    {[j \in 1..Len(outcome) |-> [label |-> outcome[j].label, raw_base |-> outcome[j].raw_base,
                                 headers_base |-> outcome[j].headers_base]] :
        outcome \in {o \in UNION {ExtractOutcomes(spec) : spec \in UIDocuments} : ~ExtractionFailed(o)}}

\* C12: at every point of every interleaving of a worker with the
\* interactive thread, a copy, view or send action is refused with "Select
\* a request first" or works on an element of the stored requests: the index
\* read from the display list never indexes outside the stored list (line
\* 415 raises no IndexError), and the stored list is never a partly built one.
C12_IndexWithinStored ==
    /\ ui.pc = "fetch" => (ui.idx >= 0 /\ ui.idx < Len(generated))
    /\ \A i \in 1..Len(effects) : effects[i].what # "uncaught"
    /\ generated = <<>> \/ generated \in CompleteResults

\* C12, the part about the stored list alone: self._generated is always
\* empty or the complete result of one extraction
C12_StoredListComplete == generated = <<>> \/ generated \in CompleteResults

============================================================================
